---- MODULE Spec2Model ----
(***************************************************************************)
(* password-worker: a PasswordWorker<H> handle (a crossbeam Sender) feeds  *)
(* WorkerCommands to one dispatch-loop thread, which runs H::hash /        *)
(* H::verify on a rayon pool and answers on a per-request oneshot channel. *)
(* Modelled from src/src/worker.rs (the loop of src/src/lib.rs is the same *)
(* statement for statement).                                               *)
(*                                                                         *)
(* Library behaviour the code relies on, modelled as documented:           *)
(*  - crossbeam_channel::unbounded: send never blocks; send fails iff the  *)
(*    Receiver is dropped; recv blocks while the queue is empty and some   *)
(*    Sender lives, and fails only when the queue is empty and no Sender   *)
(*    lives; dropping the Receiver drops the messages still queued.        *)
(*  - tokio oneshot: send fails iff the Receiver was dropped; awaiting a   *)
(*    channel whose Sender was dropped without a value yields RecvError.   *)
(*  - rayon ThreadPoolBuilder::num_threads(0) means "choose the default    *)
(*    number of threads"; build() fails only when threads cannot be        *)
(*    spawned.                                                             *)
(***************************************************************************)
EXTENDS Naturals, Sequences, FiniteSets, TLC

\* ---------------------------------------------------------------- bounds
MaxReq == 2          \* hash()/verify() calls made in one behaviour
MaxHandles == 2      \* live handle clones per worker

Workers == {"w1", "w2"}
Requests == 1 .. MaxReq
Passwords == {"p", "q"}
Configs == {"cfg", "badcfg"}
ThreadArgs == {0, 2}     \* values of max_threads tried

VARIABLES
  built,      \* [Workers -> "unbuilt"|"Ok"|"ThreadPool"|"Runtime"]: result of new()
  maxThreads, \* [Workers -> Nat]: the max_threads argument new() was given
  senders,    \* [Workers -> Nat]: live Sender clones (handles) of the queue
  queue,      \* [Workers -> Seq(Requests)]: commands in the crossbeam channel
  loop,       \* [Workers -> "none"|"recv"|"compute"|"send"|"done"]
  ret,        \* [Workers -> "-"|"Some"|"None"]: the loop closure's return value
  cur,        \* [Workers -> Requests \cup {0}]: command the loop holds
  res,        \* [Workers -> result]: result of the pool call for cur
  pc,         \* [Requests -> "idle"|"awaiting"|"resolved"|"dropped"]
  cmd,        \* [Requests -> command record]
  chan,       \* [Requests -> "none"|"open"|"sent"|"closed"]: oneshot Sender side
  slot,       \* [Requests -> result]: value stored in the oneshot channel
  out,        \* [Requests -> result]: what hash()/verify() returned
  sends,      \* [Requests -> Nat]: result_sender.send calls made for the command
  taken,      \* [Requests -> Nat]: times receiver.recv() returned the command
  runs,       \* [Requests -> Nat]: H::hash / H::verify calls made for the command
  runtime     \* [Workers -> "-"|"none"|"active"]: tokio runtime seen by new() of lib.rs

vars == <<built, maxThreads, senders, queue, loop, ret, cur, res,
          pc, cmd, chan, slot, out, sends, taken, runs, runtime>>

\* ------------------------------------------------------------ Hasher (H)
NoVal == <<>>
NoResult == [tag |-> "-", val |-> NoVal]
NoCmd == [w |-> "-", kind |-> "-", password |-> "-", arg |-> NoVal]

Ok(v) == [tag |-> "Ok", val |-> v]
Err(e) == [tag |-> "Err", val |-> e]

\* The encoded hash string of password p under config c.
Encoded(p, c) == <<"$enc", c, p>>
Garbage == <<"garbage">>
Hashes == {Encoded("p", "cfg"), Garbage}

\* The (password, config) and (password, hash) arguments the callers try: a
\* valid and a rejected config, a matching, a non-matching and a malformed
\* hash.
HashInputs == {<<"p", "cfg">>, <<"q", "cfg">>, <<"p", "badcfg">>}
VerifyInputs == {<<"p", Encoded("p", "cfg")>>, <<"q", Encoded("p", "cfg")>>,
                 <<"p", Garbage>>}

\* H::hash(&password, &config): an encoded string, or the algorithm's error
\* for a config it rejects.
HasherHash(p, c) ==
  IF c = "cfg" THEN Ok(Encoded(p, c)) ELSE Err(<<"InvalidConfig">>)

\* H::verify(&password, &hash): whether the hash encodes the password, or
\* the algorithm's error for a malformed hash.
HasherVerify(p, h) ==
  IF Len(h) = 3 /\ h[1] = "$enc"
    THEN Ok(IF h[3] = p THEN <<"true">> ELSE <<"false">>)
    ELSE Err(<<"InvalidHash">>)

\* ------------------------------------------------- PasswordWorkerError
ChannelSend == [tag |-> "ChannelSend", val |-> NoVal]
ChannelRecv == [tag |-> "ChannelRecv", val |-> NoVal]

\* result.map_err(PasswordWorkerError::Hashing)
MapErr(r) == IF r.tag = "Err" THEN [tag |-> "Hashing", val |-> r.val] ELSE r

\* ------------------------------------------------------------------ new
\* ThreadPoolBuilder::new().num_threads(n).build(): n = 0 asks rayon for its
\* default thread count, so the outcome depends only on whether the threads
\* can be spawned.
BuildPool(n, spawnable) == IF spawnable THEN "Ok" ELSE "ThreadPool"

\* Mutant: the loop thread is spawned before the pool is built.
SpawnLoopFirst(b) == "recv"

\* `build()?` returns before std::thread::spawn: the loop exists only when
\* the pool was built.
SpawnLoop(b) == IF b = "Ok" THEN "recv" ELSE "none"

\* Ok(PasswordWorker { sender }): one handle on success; on failure the
\* sender and receiver made at the top of new() are dropped.
ReturnedHandles(b) == IF b = "Ok" THEN 1 ELSE 0

New(w, n, spawnable) ==
  /\ built[w] = "unbuilt"
  /\ LET b == BuildPool(n, spawnable) IN
       /\ built' = [built EXCEPT ![w] = b]
       /\ loop' = [loop EXCEPT ![w] = SpawnLoop(b)]
       /\ senders' = [senders EXCEPT ![w] = ReturnedHandles(b)]
  /\ maxThreads' = [maxThreads EXCEPT ![w] = n]
  /\ UNCHANGED <<queue, ret, cur, res, pc, cmd, chan, slot, out, sends, taken, runs, runtime>>

\* Mutant: the missing runtime goes unnoticed.
TryCurrentIgnored(b, rt) == b

\* tokio::runtime::Handle::try_current()? of src/lib.rs, reached only after
\* `build()?`: Err(Runtime) when the pool was built and no runtime is active.
TryCurrent(b, rt) == IF b # "Ok" THEN b ELSE IF rt THEN "Ok" ELSE "Runtime"

\* new() of src/lib.rs: the pool is built, then the loop is spawned with
\* spawn_blocking on the current tokio runtime, if there is one.
NewInRuntime(w, n, spawnable, rt) ==
  /\ built[w] = "unbuilt"
  /\ LET h == TryCurrent(BuildPool(n, spawnable), rt) IN
       /\ built' = [built EXCEPT ![w] = h]
       /\ loop' = [loop EXCEPT ![w] = SpawnLoop(h)]
       /\ senders' = [senders EXCEPT ![w] = ReturnedHandles(h)]
  /\ maxThreads' = [maxThreads EXCEPT ![w] = n]
  /\ runtime' = [runtime EXCEPT ![w] = IF rt THEN "active" ELSE "none"]
  /\ UNCHANGED <<queue, ret, cur, res, pc, cmd, chan, slot, out, sends, taken, runs>>

\* -------------------------------------------------------------- handles
\* Requests whose future is pending on worker w; each borrows a handle.
Pending(w) == {r \in Requests : pc[r] = "awaiting" /\ cmd[r].w = w}

\* #[derive(Clone)]: one more Sender on the same channel.
CloneHandle(w) ==
  /\ senders[w] >= 1
  /\ senders[w] < MaxHandles
  /\ senders' = [senders EXCEPT ![w] = @ + 1]
  /\ UNCHANGED <<built, maxThreads, queue, loop, ret, cur, res,
                 pc, cmd, chan, slot, out, sends, taken, runs, runtime>>

\* Mutant: a handle can be dropped while a future still borrows it.
DropHandleUnborrowed(w) ==
  /\ senders[w] >= 1
  /\ senders' = [senders EXCEPT ![w] = @ - 1]
  /\ UNCHANGED <<built, maxThreads, queue, loop, ret, cur, res,
                 pc, cmd, chan, slot, out, sends, taken, runs, runtime>>

\* drop(password_worker): a handle borrowed by a pending hash()/verify()
\* future (&self) cannot be dropped, so the last handle goes only when no
\* future is pending.
DropHandle(w) ==
  /\ senders[w] >= 1
  /\ (senders[w] = 1 => Pending(w) = {})
  /\ senders' = [senders EXCEPT ![w] = @ - 1]
  /\ UNCHANGED <<built, maxThreads, queue, loop, ret, cur, res,
                 pc, cmd, chan, slot, out, sends, taken, runs, runtime>>

\* ------------------------------------------------------- hash / verify
\* The crossbeam Receiver lives in the loop closure: from spawn to return.
ReceiverAlive(w) == loop[w] \in {"recv", "compute", "send"}

\* Mutant: a bounded channel, whose send waits for room.
SendReadyBounded(q) == Len(q) < 1

\* crossbeam_channel::unbounded: send never waits, whatever the queue holds.
SendReady(q) == TRUE

\* Mutant: send succeeds although the Receiver is gone.
SendAcceptedAlways(w) == TRUE

\* self.sender.send(..)?: Err(SendError) iff the Receiver was dropped.
SendAccepted(w) == ReceiverAlive(w)

\* let (tx, rx) = oneshot::channel(); self.sender.send(command)?; rx.await?
\* up to the suspension on rx.
Submit(r, c) ==
  /\ pc[r] = "idle"
  /\ \A s \in Requests : s < r => pc[s] # "idle"
  /\ senders[c.w] >= 1
  /\ SendReady(queue[c.w])
  /\ cmd' = [cmd EXCEPT ![r] = c]
  /\ IF SendAccepted(c.w)
       THEN /\ queue' = [queue EXCEPT ![c.w] = Append(@, r)]
            /\ chan' = [chan EXCEPT ![r] = "open"]
            /\ pc' = [pc EXCEPT ![r] = "awaiting"]
            /\ out' = out
       ELSE /\ out' = [out EXCEPT ![r] = ChannelSend]
            /\ pc' = [pc EXCEPT ![r] = "resolved"]
            /\ UNCHANGED <<queue, chan>>
  /\ UNCHANGED <<built, maxThreads, senders, loop, ret, cur, res, slot, sends, taken, runs, runtime>>

Hash(r, w, p, c) ==
  Submit(r, [w |-> w, kind |-> "Hash", password |-> p, arg |-> <<c>>])

Verify(r, w, p, h) ==
  Submit(r, [w |-> w, kind |-> "Verify", password |-> p, arg |-> h])

\* The caller drops the pending future: the oneshot Receiver is dropped.
Abandon(r) ==
  /\ pc[r] = "awaiting"
  /\ pc' = [pc EXCEPT ![r] = "dropped"]
  /\ UNCHANGED <<built, maxThreads, senders, queue, loop, ret, cur, res,
                 cmd, chan, slot, out, sends, taken, runs, runtime>>

\* rx.await? completes: the value sent, or RecvError when the oneshot Sender
\* was dropped without one.
Resolve(r) ==
  /\ pc[r] = "awaiting"
  /\ chan[r] \in {"sent", "closed"}
  /\ out' = [out EXCEPT ![r] = IF chan[r] = "sent" THEN slot[r] ELSE ChannelRecv]
  /\ pc' = [pc EXCEPT ![r] = "resolved"]
  /\ UNCHANGED <<built, maxThreads, senders, queue, loop, ret, cur, res,
                 cmd, chan, slot, sends, taken, runs, runtime>>

\* -------------------------------------------------------- dispatch loop
\* Mutant: the most recent command is taken first.
DequeueLast(q) == [head |-> q[Len(q)], rest |-> SubSeq(q, 1, Len(q) - 1)]

\* Mutant: recv returns the oldest command and leaves it in the queue.
DequeueKeeps(q) == [head |-> Head(q), rest |-> q]

\* receiver.recv() on a non-empty queue: the oldest command.
Dequeue(q) == [head |-> Head(q), rest |-> Tail(q)]

\* Mutant: recv never reports the disconnect.
DisconnectedNever(w) == FALSE

\* Mutant: recv gives up as soon as the queue is empty.
DisconnectedOnEmpty(w) == queue[w] = <<>>

\* receiver.recv() is Err: the queue is empty and every Sender is dropped.
Disconnected(w) == queue[w] = <<>> /\ senders[w] = 0

\* Mutant: one table of pending responses shared by all workers, all of
\* them dropped when a loop ends.
DroppedWithReceiverGlobal(q) == {r \in Requests : chan[r] = "open"}

\* Mutant: the messages left in the channel are never dropped.
DroppedWithReceiverNone(q) == {}

\* Dropping the Receiver drops the commands still queued, and with each its
\* oneshot Sender.
DroppedWithReceiver(q) == {q[i] : i \in 1 .. Len(q)}

\* Mutant: the command is handed to the pool and the loop goes straight back
\* to recv (a spawn instead of install).
InstallSpawns == "recv"

\* thread_pool.install(..) runs in the loop's own iteration: after a recv the
\* loop is in the pool call and takes no other command until it returns.
InstallBlocks == "compute"

\* while let Ok(command) = receiver.recv() { ... } Some(())
LoopRecv(w) ==
  /\ loop[w] = "recv"
  /\ \/ /\ queue[w] # <<>>
        /\ LET d == Dequeue(queue[w]) IN
             /\ cur' = [cur EXCEPT ![w] = d.head]
             /\ queue' = [queue EXCEPT ![w] = d.rest]
             /\ taken' = [taken EXCEPT ![d.head] = @ + 1]
        /\ loop' = [loop EXCEPT ![w] = InstallBlocks]
        /\ ret' = ret
     \/ /\ Disconnected(w)
        /\ loop' = [loop EXCEPT ![w] = "done"]
        /\ ret' = [ret EXCEPT ![w] = "Some"]
        /\ UNCHANGED <<cur, queue, taken>>
  /\ UNCHANGED <<built, maxThreads, senders, res, pc, cmd, chan, slot, out,
                 sends, runs, runtime>>

\* Mutant: every command is computed as a hash of a fixed password.
RunCommandFixed(c) == HasherHash("p", "cfg")

\* Mutant: verify is run on a fixed password instead of the caller's.
RunCommandOtherPassword(c) ==
  IF c.kind = "Hash" THEN HasherHash(c.password, c.arg[1])
                     ELSE HasherVerify("p", c.arg)

\* match command { Hash(..) => H::hash(&password, &cost),
\*                 Verify(..) => H::verify(&password, &hash) }
RunCommand(c) ==
  IF c.kind = "Hash" THEN HasherHash(c.password, c.arg[1])
                     ELSE HasherVerify(c.password, c.arg)

\* let result = thread_pool.install(|| ...): blocks the loop until done.
LoopCompute(w) ==
  /\ loop[w] = "compute"
  /\ res' = [res EXCEPT ![w] = RunCommand(cmd[cur[w]])]
  /\ runs' = [runs EXCEPT ![cur[w]] = @ + 1]
  /\ loop' = [loop EXCEPT ![w] = "send"]
  /\ UNCHANGED <<built, maxThreads, senders, queue, ret, cur,
                 pc, cmd, chan, slot, out, sends, taken, runtime>>

\* oneshot Sender::send: Err iff the Receiver (the pending future) is gone.
Delivered(r) == pc[r] = "awaiting"

\* Mutant: an algorithm error ends the loop as well.
AfterSendErrFatal(delivered, result) ==
  IF delivered /\ result.tag = "Ok" THEN "recv" ELSE "done"

\* Mutant: a failed send is ignored and the loop goes on.
AfterSendAlwaysRecv(delivered, result) == "recv"

\* result_sender.send(..).ok()?: a failed send returns None from the
\* closure; otherwise the loop goes on to the next recv.
AfterSend(delivered, result) == IF delivered THEN "recv" ELSE "done"

LoopSend(w) ==
  /\ loop[w] = "send"
  /\ LET r == cur[w]
         d == Delivered(r)
         n == AfterSend(d, res[w])
         gone == IF n = "done" THEN DroppedWithReceiver(queue[w]) ELSE {}
     IN
       /\ sends' = [sends EXCEPT ![r] = @ + 1]
       /\ slot' = [slot EXCEPT ![r] = IF d THEN MapErr(res[w]) ELSE @]
       /\ chan' = [s \in Requests |->
                     IF s = r THEN (IF d THEN "sent" ELSE "closed")
                     ELSE IF s \in gone THEN "closed" ELSE chan[s]]
       /\ loop' = [loop EXCEPT ![w] = n]
       /\ ret' = [ret EXCEPT ![w] = IF n = "done" THEN "None" ELSE @]
       /\ queue' = [queue EXCEPT ![w] = IF n = "done" THEN <<>> ELSE @]
  /\ cur' = [cur EXCEPT ![w] = 0]
  /\ res' = [res EXCEPT ![w] = NoResult]
  /\ UNCHANGED <<built, maxThreads, senders, pc, cmd, out, taken, runs, runtime>>

\* ------------------------------------------------------- specification
Init ==
  /\ built = [w \in Workers |-> "unbuilt"]
  /\ maxThreads = [w \in Workers |-> 0]
  /\ senders = [w \in Workers |-> 0]
  /\ queue = [w \in Workers |-> <<>>]
  /\ loop = [w \in Workers |-> "none"]
  /\ ret = [w \in Workers |-> "-"]
  /\ cur = [w \in Workers |-> 0]
  /\ res = [w \in Workers |-> NoResult]
  /\ pc = [r \in Requests |-> "idle"]
  /\ cmd = [r \in Requests |-> NoCmd]
  /\ chan = [r \in Requests |-> "none"]
  /\ slot = [r \in Requests |-> NoResult]
  /\ out = [r \in Requests |-> NoResult]
  /\ sends = [r \in Requests |-> 0]
  /\ taken = [r \in Requests |-> 0]
  /\ runs = [r \in Requests |-> 0]
  /\ runtime = [w \in Workers |-> "-"]

\* The steps of the constructed workers in W and of their callers, with the
\* hash / verify arguments drawn from HI / VI.
RunOf(W, HI, VI) ==
  \/ \E w \in W : CloneHandle(w)
  \/ \E w \in W : DropHandle(w)
  \/ \E r \in Requests, w \in W, i \in HI : Hash(r, w, i[1], i[2])
  \/ \E r \in Requests, w \in W, i \in VI : Verify(r, w, i[1], i[2])
  \/ \E r \in Requests : Abandon(r)
  \/ \E r \in Requests : Resolve(r)
  \/ \E w \in W : LoopRecv(w)
  \/ \E w \in W : LoopCompute(w)
  \/ \E w \in W : LoopSend(w)

\* The same with the workers constructed by new() of src/worker.rs, with
\* max_threads drawn from T.
StepsOf(W, T, HI, VI) ==
  \/ \E w \in W, n \in T, s \in BOOLEAN : New(w, n, s)
  \/ RunOf(W, HI, VI)

NextOver(W) == StepsOf(W, ThreadArgs, HashInputs, VerifyInputs)

\* A program that constructs one worker.
Next == NextOver({"w1"})

Spec == Init /\ [][Next]_vars

\* The loop thread is scheduled and each pool call terminates; a caller that
\* keeps awaiting is woken when its oneshot channel is completed or closed.
Fairness ==
  /\ \A w \in Workers :
       WF_vars(LoopRecv(w)) /\ WF_vars(LoopCompute(w)) /\ WF_vars(LoopSend(w))
  /\ \A r \in Requests : WF_vars(Resolve(r))

FairSpec == Spec /\ Fairness

\* A program that constructs one worker with new() of src/lib.rs, inside or
\* outside a tokio runtime.
NextLib ==
  \/ \E n \in ThreadArgs, s \in BOOLEAN, rt \in BOOLEAN :
       NewInRuntime("w1", n, s, rt)
  \/ RunOf({"w1"}, HashInputs, VerifyInputs)

LibSpec == Init /\ [][NextLib]_vars

\* A program that constructs two workers (as examples/usage.rs does).
\* Each is built with a positive max_threads and gets one kind of hash and
\* one kind of verify request.
NextPair ==
  StepsOf(Workers, {2}, {<<"p", "cfg">>}, {<<"p", Garbage>>})

PairSpec == Init /\ [][NextPair]_vars

\* ------------------------------------------------------------- claims
\* The command of request r was accepted by the queue of worker w.
Enqueued(r, w) == cmd[r].w = w /\ chan[r] # "none"

\* The loop took the command of request r out of the queue: it holds it, or
\* has already made the send for it.
Dequeued(r) == (\E w \in Workers : cur[w] = r) \/ sends[r] >= 1

\* C1: every enqueued command resolves at a caller that keeps awaiting, with
\* the one response the loop sent (Ok or Hashing), or with ChannelRecv when
\* the loop terminated before answering it; at most one send per command.
C1_EnqueuedResolvesOnce ==
  /\ \A r \in Requests :
       (pc[r] = "awaiting") ~> (pc[r] \in {"resolved", "dropped"})
  /\ [](\A r \in Requests :
          /\ sends[r] <= 1
          /\ (pc[r] = "resolved" /\ chan[r] # "none") =>
               \/ /\ chan[r] = "sent" /\ sends[r] = 1
                  /\ out[r] = slot[r] /\ out[r].tag \in {"Ok", "Hashing"}
               \/ /\ chan[r] = "closed" /\ sends[r] = 0
                  /\ out[r] = ChannelRecv /\ loop[cmd[r].w] = "done")

\* C1 witness: a command that sat in the queue when the loop terminated was
\* resolved with ChannelRecv, and another one with the loop's response.
C1_Witness ==
  \E r \in Requests :
    /\ pc[r] = "resolved" /\ out[r] = ChannelRecv /\ sends[r] = 0
    /\ \E s \in Requests : s # r /\ sends[s] = 1

\* C2 (as claimed): a failed delivery to an abandoned receiver never ends
\* the loop, so the closure never takes the early return of `.ok()?`.
C2_FailedDeliveryNotFatal == \A w \in Workers : ret[w] # "None"

\* C3: commands of one worker are dequeued in the order they were enqueued
\* (request numbers are given in enqueue order): a dequeued command has no
\* earlier command of the same worker still waiting or skipped.
C3_FifoDequeue ==
  \A w \in Workers : \A a, b \in Requests :
    (a < b /\ Enqueued(a, w) /\ Enqueued(b, w) /\ Dequeued(b)) => Dequeued(a)

\* C3 witness: two commands were queued on one worker and the loop holds the
\* first while the second still waits.
C3_Witness ==
  \E w \in Workers, a, b \in Requests :
    a < b /\ cur[w] = a /\ queue[w] = <<b>> /\ senders[w] >= 2

\* C4: with no request abandoned, every hash request that has resolved got
\* the one response the loop sent for it, computed from its own password and
\* config: none is lost (ChannelRecv or ChannelSend), duplicated or mixed up.
C4_EachHashGetsOwnResult ==
  (\A r \in Requests : pc[r] # "dropped") =>
    \A r \in Requests :
      (pc[r] = "resolved" /\ cmd[r].kind = "Hash") =>
        /\ out[r] = MapErr(HasherHash(cmd[r].password, cmd[r].arg[1]))
        /\ sends[r] = 1

\* C4 witness: every request was a hash on shared clones of one worker, all
\* have resolved, and two of them carry different results.
C4_Witness ==
  /\ \A r \in Requests : pc[r] = "resolved" /\ cmd[r].kind = "Hash"
  /\ \E a, b \in Requests : out[a].tag = "Ok" /\ out[b].tag = "Ok" /\ out[a] # out[b]
  /\ \E w \in Workers : senders[w] >= 2

\* C5: once every handle of a constructed worker is dropped, its loop
\* reaches Terminated by returning from the closure.
C5_AllHandlesDroppedTerminates ==
  \A w \in Workers :
    (built[w] = "Ok" /\ senders[w] = 0) ~>
      (loop[w] = "done" /\ ret[w] \in {"Some", "None"})

\* C5 witness: the loop ended on the closed queue after serving a command.
C5_Witness ==
  \E w \in Workers :
    /\ senders[w] = 0 /\ loop[w] = "done" /\ ret[w] = "Some"
    /\ \E r \in Requests : cmd[r].w = w /\ pc[r] = "resolved" /\ out[r].tag = "Ok"

\* C6: a hash()/verify() call made on a worker whose loop has terminated
\* returns ChannelSend at once: nothing is enqueued and the caller does not
\* wait on its response channel.
C6_CallAfterTerminationFails ==
  [][\A r \in Requests :
       (pc[r] = "idle" /\ pc'[r] # "idle" /\ loop[cmd'[r].w] = "done") =>
         /\ pc'[r] = "resolved" /\ out'[r] = ChannelSend
         /\ chan'[r] = "none" /\ queue' = queue]_vars

\* C6 witness: a call on a live handle of a terminated worker has returned
\* ChannelSend.
C6_Witness ==
  \E r \in Requests :
    /\ out[r] = ChannelSend /\ pc[r] = "resolved"
    /\ loop[cmd[r].w] = "done" /\ senders[cmd[r].w] >= 1

\* C7: when the Hasher returned an error and the caller still awaits, the
\* send step stores that error as the Hashing value of this request and the
\* loop goes back to recv; a caller only sees a Hashing error the Hasher
\* returned for its own command.
C7_HashingErrorDeliveredLoopRuns ==
  /\ [][\A w \in Workers :
          (loop[w] = "send" /\ loop'[w] # "send" /\ res[w].tag = "Err"
             /\ pc[cur[w]] = "awaiting") =>
            /\ loop'[w] = "recv" /\ ret'[w] = "-"
            /\ chan'[cur[w]] = "sent"
            /\ slot'[cur[w]] = [tag |-> "Hashing", val |-> res[w].val]]_vars
  /\ [](\A r \in Requests :
          (pc[r] = "resolved" /\ out[r].tag = "Hashing") =>
            /\ cmd[r].kind = "Hash" => HasherHash(cmd[r].password, cmd[r].arg[1]) = Err(out[r].val)
            /\ cmd[r].kind = "Verify" => HasherVerify(cmd[r].password, cmd[r].arg) = Err(out[r].val))

\* C7 witness: a verify of a malformed hash resolved with the Hashing error
\* and a later command of the same worker was answered Ok.
C7_Witness ==
  \E a, b \in Requests :
    /\ a < b /\ cmd[a].w = cmd[b].w
    /\ cmd[a].kind = "Verify" /\ pc[a] = "resolved" /\ out[a].tag = "Hashing"
    /\ pc[b] = "resolved" /\ out[b].tag = "Ok"

\* C8: a caller holding a handle can always complete the enqueue of hash()
\* and verify(), whatever the queue holds and whatever the loop is doing;
\* the only wait is the suspension on the response channel ("awaiting").
C8_EnqueueNeverBlocks ==
  \A w \in Workers, r \in Requests :
    (pc[r] = "idle" /\ (\A s \in Requests : s < r => pc[s] # "idle")
       /\ senders[w] >= 1) =>
      /\ \A p \in Passwords, c \in Configs : ENABLED Hash(r, w, p, c)
      /\ \A p \in Passwords, h \in Hashes : ENABLED Verify(r, w, p, h)

\* C8 witness: a command was enqueued behind one still queued while the loop
\* had not come back to recv.
C8_Witness ==
  \E w \in Workers :
    \/ (Len(queue[w]) >= 1 /\ loop[w] \in {"compute", "send"})
    \/ Len(queue[w]) >= 2

\* C9 (as claimed): new(0) yields the ThreadPool error.
C9_ZeroThreadsRejected ==
  \A w \in Workers :
    (built[w] # "unbuilt" /\ maxThreads[w] = 0) => built[w] = "ThreadPool"

\* C10: a new() whose pool could not be built returned the error and left no
\* loop thread, no handle and no way to enqueue a command.
C10_FailedNewLeavesNothing ==
  \A w \in Workers :
    built[w] = "ThreadPool" =>
      /\ loop[w] = "none" /\ ret[w] = "-"
      /\ senders[w] = 0
      /\ queue[w] = <<>> /\ cur[w] = 0
      /\ \A r \in Requests : cmd[r].w # w
      /\ \A p \in Passwords, c \in Configs, r \in Requests :
           ~ ENABLED Hash(r, w, p, c)

\* C10 witness: a construction whose pool provisioning failed.
C10_Witness == \E w \in Workers : built[w] = "ThreadPool" /\ maxThreads[w] = 2

\* C11: when a hash request of password P returned Ok(h) and a verify request
\* of password Q against that h was answered by the loop, the answer is
\* Ok(true) when P = Q and Ok(false) otherwise.
C11_HashThenVerifyRoundTrip ==
  \A a, b \in Requests :
    (/\ cmd[a].kind = "Hash" /\ pc[a] = "resolved" /\ out[a].tag = "Ok"
     /\ cmd[b].kind = "Verify" /\ cmd[b].arg = out[a].val
     /\ pc[b] = "resolved" /\ chan[b] = "sent") =>
      out[b] = Ok(IF cmd[a].password = cmd[b].password
                    THEN <<"true">> ELSE <<"false">>)

\* C11 witness: a hash of "p" returned its string and a verify of "q" against
\* that string returned Ok(false).
C11_Witness ==
  \E a, b \in Requests :
    /\ a < b /\ cmd[a].kind = "Hash" /\ pc[a] = "resolved" /\ out[a].tag = "Ok"
    /\ cmd[b].kind = "Verify" /\ cmd[b].arg = out[a].val
    /\ cmd[b].password # cmd[a].password
    /\ pc[b] = "resolved" /\ out[b] = Ok(<<"false">>)

\* C12 (as claimed): while at least one handle of a worker exists its queue
\* is open and its loop is Running, so no request on a surviving handle
\* fails with ChannelSend or ChannelRecv.
C12_RunningWhileHandleLives ==
  \A w \in Workers :
    senders[w] >= 1 =>
      /\ loop[w] \in {"recv", "compute", "send"}
      /\ \A r \in Requests :
           cmd[r].w = w => out[r] \notin {ChannelSend, ChannelRecv}

\* Commands of worker w the loop has taken and not yet made the send for:
\* its pool submissions in flight.
InFlight(w) == {r \in Requests : cmd[r].w = w /\ taken[r] > sends[r]}

\* C13: a worker's loop has at most one pool submission in flight, the
\* command it holds; while it waits on the queue (or has ended) it has none,
\* so the next command is dequeued only after the send for the current one.
C13_OneSubmissionInFlight ==
  \A w \in Workers :
    /\ Cardinality(InFlight(w)) <= 1
    /\ InFlight(w) = {cur[w]} \ {0}
    /\ loop[w] \in {"none", "recv", "done"} => InFlight(w) = {}
    /\ loop[w] \in {"compute", "send"} => cur[w] # 0

\* C13 witness: the loop is in the pool call for one command while another
\* command waits in the queue.
C13_Witness ==
  \E w \in Workers :
    loop[w] = "compute" /\ Len(queue[w]) >= 1 /\ InFlight(w) = {cur[w]}

\* The two states of the Dispatch Loop.
Running(w) == loop[w] \in {"recv", "compute", "send"}
Terminated(w) == loop[w] = "done"

\* C14: a spawned loop is Running or Terminated; it leaves Running only from
\* recv on a closed queue (empty, no handle left) or from a send whose
\* receiver is gone; a send that is delivered, whatever the result, brings it
\* back to waiting on the queue.
C14_LoopTransitions ==
  /\ [](\A w \in Workers : built[w] = "Ok" => (Running(w) \/ Terminated(w)))
  /\ [][\A w \in Workers :
          /\ (Running(w) /\ Terminated(w)') =>
               \/ /\ loop[w] = "recv" /\ queue[w] = <<>> /\ senders[w] = 0
                  /\ ret'[w] = "Some"
               \/ /\ loop[w] = "send" /\ pc[cur[w]] # "awaiting"
                  /\ ret'[w] = "None"
          /\ (loop[w] = "send" /\ loop'[w] # "send" /\ pc[cur[w]] = "awaiting") =>
               (loop'[w] = "recv" /\ ret'[w] = "-")
          /\ Running(w) => (Running(w)' \/ Terminated(w)')]_vars

\* C14 witness: a loop that answered a command and was later terminated by a
\* failed delivery.
C14_Witness ==
  \E w \in Workers :
    /\ Terminated(w) /\ ret[w] = "None"
    /\ \E r \in Requests :
         cmd[r].w = w /\ pc[r] = "resolved" /\ out[r].tag \in {"Ok", "Hashing"}

\* Everything that belongs to worker w: its construction result, handles,
\* queue, loop, and the requests made on it with their responses.
WorkerState(w) ==
  <<built[w], maxThreads[w], runtime[w], senders[w], queue[w], loop[w],
    ret[w], cur[w], res[w],
    [r \in Requests |->
       IF cmd[r].w = w
         THEN <<pc[r], cmd[r], chan[r], slot[r], out[r], sends[r], taken[r], runs[r]>>
         ELSE <<>>]>>

\* C15: no step of two separately constructed workers touches both: a step
\* that changes anything of one worker (an enqueue, an abandoned request, a
\* dropped handle, its loop terminating) leaves the other's queue, loop
\* state, handles and responses as they were.
C15_WorkersIndependent ==
  [][\A a, b \in Workers :
       a # b => (WorkerState(a)' = WorkerState(a) \/ WorkerState(b)' = WorkerState(b))]_vars

\* C15 witness: one worker's loop was terminated by a failed delivery while
\* the other worker is still Running and has answered a request.
C15_Witness ==
  \E a, b \in Workers :
    /\ a # b /\ Terminated(a) /\ ret[a] = "None" /\ loop[b] = "recv"
    /\ \E r \in Requests : cmd[r].w = b /\ pc[r] = "resolved" /\ out[r].tag = "Ok"

\* C16 (as claimed): an abandoned command is never cancelled: once its
\* response Sender is gone, the command was dequeued, its Hasher call ran
\* and the (failing) send was made for it.
C16_AbandonedStillComputed ==
  \A r \in Requests :
    (pc[r] = "dropped" /\ chan[r] = "closed") =>
      (taken[r] = 1 /\ runs[r] = 1 /\ sends[r] = 1)

\* The commands in the queue of worker w.
Queued(w) == {queue[w][i] : i \in 1 .. Len(queue[w])}

\* C17: a command is dequeued at most once, its Hasher operation is invoked
\* at most once and at most one send is made on its response channel, in
\* that order; a command is in the queue (once) or held by the loop, never
\* both.
C17_ConsumedOnce ==
  /\ \A r \in Requests :
       /\ taken[r] <= 1 /\ runs[r] <= taken[r] /\ sends[r] <= runs[r]
       /\ \A w \in Workers :
            /\ r \in Queued(w) => (taken[r] = 0 /\ cur[w] # r /\ cmd[r].w = w)
            /\ cur[w] = r => (taken[r] = 1 /\ sends[r] = 0)
  /\ \A w \in Workers : Cardinality(Queued(w)) = Len(queue[w])

\* C17 witness: one command went through recv, the Hasher and the send and
\* was resolved, while the loop holds the next one.
C17_Witness ==
  \E a, b \in Requests :
    /\ a # b /\ cmd[a].w = cmd[b].w
    /\ taken[a] = 1 /\ runs[a] = 1 /\ sends[a] = 1 /\ pc[a] = "resolved"
    /\ cur[cmd[b].w] = b /\ runs[b] = 1

\* C18 (as claimed): new() of src/lib.rs called with no active runtime
\* returns the Runtime error.
C18_NoRuntimeGivesRuntimeError ==
  \A w \in Workers :
    (runtime[w] = "none" /\ built[w] # "unbuilt") => built[w] = "Runtime"

\* C18 (amended): new() of src/lib.rs called with no active runtime returns
\* an error (Runtime when the pool could be built, ThreadPool when it could
\* not), spawns no loop and returns no handle; called inside a runtime with
\* a pool that can be built it spawns the one loop of the worker and returns
\* one handle to its queue.
C18_RuntimeBoundNew ==
  /\ [](\A w \in Workers :
          /\ runtime[w] = "none" =>
               /\ built[w] \in {"Runtime", "ThreadPool"}
               /\ loop[w] = "none" /\ senders[w] = 0 /\ queue[w] = <<>>
               /\ \A r \in Requests : cmd[r].w # w
          /\ built[w] = "Runtime" => runtime[w] = "none"
          /\ (runtime[w] = "active" /\ built[w] = "Ok") => loop[w] # "none")
  /\ [][\A w \in Workers, n \in ThreadArgs :
          /\ NewInRuntime(w, n, TRUE, FALSE) => built'[w] = "Runtime"
          /\ NewInRuntime(w, n, FALSE, FALSE) => built'[w] = "ThreadPool"
          /\ NewInRuntime(w, n, TRUE, TRUE) =>
               (built'[w] = "Ok" /\ loop'[w] = "recv" /\ senders'[w] = 1)]_vars

\* C18 witness: a construction outside any runtime returned the Runtime
\* error.
C18_Witness ==
  \E w \in Workers : built[w] = "Runtime" /\ runtime[w] = "none" /\ maxThreads[w] = 2

\* C19: for two commands of one worker, A enqueued before B, the loop has
\* made its send for A before it takes B from the queue, hence before B's
\* computation starts and before any response for B is sent or delivered.
C19_ResponsesInSubmissionOrder ==
  /\ [](\A w \in Workers, a \in Requests, b \in Requests :
          (a < b /\ Enqueued(a, w) /\ Enqueued(b, w)) =>
            /\ taken[b] >= 1 => sends[a] = 1
            /\ runs[b] >= 1 => sends[a] = 1
            /\ sends[b] >= 1 => sends[a] = 1
            /\ slot[b] # NoResult => sends[a] = 1)
  /\ [][\A w \in Workers, a \in Requests, b \in Requests :
          (a < b /\ Enqueued(a, w) /\ Enqueued(b, w) /\ runs'[b] > runs[b]) =>
            sends[a] = 1]_vars

\* C19 witness: two commands of one worker were both answered and both
\* responses reached their callers.
C19_Witness ==
  \E w \in Workers, a \in Requests, b \in Requests :
    /\ a < b /\ Enqueued(a, w) /\ Enqueued(b, w)
    /\ sends[a] = 1 /\ sends[b] = 1
    /\ slot[a] # NoResult /\ slot[b] # NoResult

\* C20: a terminated loop stays terminated and never dequeues, computes or
\* answers another command, whatever handles are alive; and a send that is
\* not delivered terminates the loop with every command queued behind it
\* dropped uncomputed.
C20_TerminatedAbsorbing ==
  /\ [][\A w \in Workers :
          Terminated(w) =>
            /\ Terminated(w)'
            /\ cur'[w] = cur[w] /\ res'[w] = res[w] /\ ret'[w] = ret[w]
            /\ \A r \in Requests :
                 cmd[r].w = w =>
                   (taken'[r] = taken[r] /\ runs'[r] = runs[r] /\ sends'[r] = sends[r])]_vars
  /\ [][\A w \in Workers :
          (loop[w] = "send" /\ loop'[w] # "send" /\ ~Delivered(cur[w])) =>
            /\ Terminated(w)'
            /\ \A r \in Queued(w) : runs[r] = 0 /\ chan'[r] = "closed"]_vars
  /\ [](\A w \in Workers, r \in Requests :
          (Terminated(w) /\ Enqueued(r, w) /\ ~Dequeued(r)) =>
            (runs[r] = 0 /\ slot[r] = NoResult /\ chan[r] = "closed"))

\* C20 witness: the loop terminated on a failed delivery while a handle is
\* alive and a caller still awaits a command that was queued behind it.
C20_Witness ==
  \E w \in Workers, a \in Requests, b \in Requests :
    /\ Terminated(w) /\ senders[w] >= 1
    /\ Enqueued(a, w) /\ sends[a] = 1 /\ slot[a] = NoResult
    /\ Enqueued(b, w) /\ taken[b] = 0 /\ pc[b] = "awaiting"

\* The loop of worker w returned because recv reported the queue closed.
ExitedOnClosure(w) == Terminated(w) /\ ret[w] = "Some"

\* C21: the loop never exits on queue closure while a request of its worker
\* is awaited: an awaited request keeps a handle alive, recv reports closure
\* only on an empty queue with no handle left and dequeues whatever is still
\* queued instead, so every command enqueued was dequeued before an exit on
\* closure.
C21_NoClosureWhileAwaited ==
  /\ [](\A w \in Workers :
          /\ Pending(w) # {} => (senders[w] >= 1 /\ ~ExitedOnClosure(w))
          /\ ExitedOnClosure(w) =>
               /\ senders[w] = 0 /\ queue[w] = <<>>
               /\ \A r \in Requests : Enqueued(r, w) => taken[r] = 1)
  /\ [][\A w \in Workers :
          /\ (~ExitedOnClosure(w) /\ ExitedOnClosure(w)') =>
               /\ loop[w] = "recv" /\ queue[w] = <<>> /\ senders[w] = 0
               /\ Pending(w) = {}
          /\ (loop[w] = "recv" /\ queue[w] # <<>> /\ loop'[w] # "recv") =>
               /\ loop'[w] = "compute" /\ cur'[w] = Head(queue[w])
               /\ taken'[cur'[w]] = 1]_vars

\* C21 witness: the loop exited on closure after two commands were enqueued
\* and dequeued, one answered to its caller and one whose caller gave up
\* after the response had been sent.
C21_Witness ==
  \E w \in Workers, a \in Requests, b \in Requests :
    /\ ExitedOnClosure(w)
    /\ Enqueued(a, w) /\ Enqueued(b, w)
    /\ pc[a] = "resolved" /\ pc[b] = "dropped"
    /\ taken[a] = 1 /\ taken[b] = 1

====
